---- MODULE Spec2Model ----
(***************************************************************************)
(* A model of lsst.skymap's DodecaSkyMap (python/lsst/skymap/dodecaSkyMap.py) *)
(* and of the collaborators it calls.                                      *)
(*                                                                         *)
(* Numbers.  A Python float is modelled on an integer grid:                *)
(*   - an angle is an integer number of micro-radians (afwGeom.Angle keeps *)
(*     radians), so Angle(v, radians) = v and Angle(v, degrees) = v*17453; *)
(*   - a cartesian component is an integer, a unit vector having length    *)
(*     VecScale; the grid step lies below _TinyFloat, so that components   *)
(*     of magnitude 1 are the non-zero floats smaller than _TinyFloat.     *)
(* A Python exception is the record [raised |-> <its text>]; a normal      *)
(* return is [raised |-> NoError, value |-> v].  Python's None is <<>> and *)
(* a value that may be None is <<v>>.                                      *)
(***************************************************************************)
EXTENDS Integers, Sequences, FiniteSets, TLC

VARIABLES skymap, call

vars == <<skymap, call>>

-----------------------------------------------------------------------------
(* Exceptions and returns *)

NoError == ""
PoleAmbiguity == "RuntimeError: At pole and defRA==None"
VersionError == "RuntimeError: Version >= (2,0); cannot unpickle"
NameError == "NameError: name 'runtimeError' is not defined"
ConfigurationError == "ConfigurationError"

Raise(e) == [raised |-> e]
Return(v) == [raised |-> NoError, value |-> v]

None == <<>>
Some(v) == <<v>>

-----------------------------------------------------------------------------
(* lsst.afw.geom.Angle and the trigonometry of lsst.afw.coord *)

radians == 1
degrees == 17453

Angle(value, units) == value * units
asRadians(angle) == angle \div radians
asDegrees(angle) == angle \div degrees

\* SinTab[d + 1] = 1000 * sin(d degrees), d in 0..90
SinTab ==
  <<0, 17, 35, 52, 70, 87, 105, 122, 139, 156, 174, 191, 208, 225, 242, 259,
    276, 292, 309, 326, 342, 358, 375, 391, 407, 423, 438, 454, 469, 485, 500,
    515, 530, 545, 559, 574, 588, 602, 616, 629, 643, 656, 669, 682, 695, 707,
    719, 731, 743, 755, 766, 777, 788, 799, 809, 819, 829, 839, 848, 857, 866,
    875, 883, 891, 899, 906, 914, 921, 927, 934, 940, 946, 951, 956, 961, 966,
    970, 974, 978, 982, 985, 988, 990, 993, 995, 996, 998, 999, 999, 1000, 1000>>

\* The length of a unit vector
VecScale == SinTab[91]

Abs(x) == IF x < 0 THEN -x ELSE x

SinDeg(d) ==
  LET m == d % 360
  IN  IF m <= 90 THEN SinTab[m + 1]
      ELSE IF m <= 180 THEN SinTab[180 - m + 1]
      ELSE IF m <= 270 THEN -SinTab[m - 180 + 1]
      ELSE -SinTab[360 - m + 1]

CosDeg(d) == SinDeg(d + 90)

RECURSIVE ISqrtIter(_, _, _)
ISqrtIter(n, lo, hi) ==
  IF hi - lo <= 1 THEN lo
  ELSE LET mid == (lo + hi) \div 2
       IN  IF mid * mid <= n THEN ISqrtIter(n, mid, hi) ELSE ISqrtIter(n, lo, mid)

\* floor(sqrt(n)) for 0 <= n < 4096^2
ISqrt(n) == ISqrtIter(n, 0, 4096)

\* The largest d in lo..hi-1 with the direction (adj, opp) at or past d degrees
RECURSIVE FloorAngleIter(_, _, _, _)
FloorAngleIter(adj, opp, lo, hi) ==
  IF hi - lo <= 1 THEN lo
  ELSE LET mid == (lo + hi) \div 2
       IN  IF opp * CosDeg(mid) - adj * SinDeg(mid) >= 0
           THEN FloorAngleIter(adj, opp, mid, hi)
           ELSE FloorAngleIter(adj, opp, lo, mid)

\* atan2(opp, adj) to the nearest degree, for adj >= 0, opp >= 0, in 0..90
AngleDeg(adj, opp) ==
  IF adj = 0 /\ opp = 0 THEN 0
  ELSE LET d == FloorAngleIter(adj, opp, 0, 91)
       IN  IF d < 90 /\ adj * CosDeg(d + 1) + opp * SinDeg(d + 1)
                          > adj * CosDeg(d) + opp * SinDeg(d)
           THEN d + 1 ELSE d

\* Longitude of a vector in whole degrees, 0..359
LonDeg(vec) ==
  LET x == vec[1]
      y == vec[2]
  IN  IF x > 0 /\ y >= 0 THEN AngleDeg(x, y) % 360
      ELSE IF x <= 0 /\ y > 0 THEN (90 + AngleDeg(y, -x)) % 360
      ELSE IF x < 0 /\ y <= 0 THEN (180 + AngleDeg(-x, -y)) % 360
      ELSE IF x >= 0 /\ y < 0 THEN (270 + AngleDeg(-y, x)) % 360
      ELSE 0

\* Latitude of a vector in whole degrees, -90..90
LatDeg(vec) ==
  LET r == ISqrt(vec[1] * vec[1] + vec[2] * vec[2])
  IN  IF vec[3] >= 0 THEN AngleDeg(r, vec[3]) ELSE -AngleDeg(r, -vec[3])

\* afwCoord.makeCoord(afwCoord.ICRS, longitude, latitude)
makeCoord(lon, lat) == [lon |-> lon, lat |-> lat]

\* afwCoord.makeCoord(afwCoord.ICRS, afwGeom.Point3D(*vec))
makeCoordFromVec(vec) ==
  [lon |-> Angle(LonDeg(vec), degrees), lat |-> Angle(LatDeg(vec), degrees)]

\* coord.toIcrs().getVector()
getVector(coord) ==
  LET lon == asDegrees(coord.lon)
      lat == asDegrees(coord.lat)
  IN  <<(CosDeg(lat) * CosDeg(lon)) \div VecScale,
        (CosDeg(lat) * SinDeg(lon)) \div VecScale,
        SinDeg(lat)>>

-----------------------------------------------------------------------------
(* dodecaSkyMap.py, module level *)

_TinyFloat == 2

\* _coordFromVec with `or` for `and` in the test of line 60
_coordFromVec_OrPole(vec, defRA) ==
  IF Abs(vec[1]) < _TinyFloat \/ Abs(vec[2]) < _TinyFloat
  THEN IF defRA = None
       THEN Raise(PoleAmbiguity)
       ELSE Return(makeCoord(defRA[1],
                   Angle(IF vec[3] > 0 THEN 90 ELSE -90, degrees)))
  ELSE Return(makeCoordFromVec(vec))

\* _coordFromVec as written
_coordFromVec(vec, defRA) ==
  IF Abs(vec[1]) < _TinyFloat /\ Abs(vec[2]) < _TinyFloat
  THEN IF defRA = None
       THEN Raise(PoleAmbiguity)
       ELSE Return(makeCoord(defRA[1],
                   Angle(IF vec[3] > 0 THEN 90 ELSE -90, degrees)))
  ELSE Return(makeCoordFromVec(vec))

-----------------------------------------------------------------------------
(* detail.Dodecahedron: twelve face centres and, per face, its five vertices, *)
(* as integer vectors of length VecScale.  Faces are numbered by decreasing   *)
(* z, then increasing longitude.                                              *)

\* withFacesOnPoles = True: faces 0 and 11 are centred on the poles
FaceCtrOnPoles ==
  <<<<0, 0, 1000>>, <<894, 0, 447>>, <<276, 851, 447>>, <<-724, 526, 447>>,
    <<-724, -526, 447>>, <<276, -851, 447>>, <<724, 526, -447>>,
    <<-276, 851, -447>>, <<-894, 0, -447>>, <<-276, -851, -447>>,
    <<724, -526, -447>>, <<0, 0, -1000>>>>

VerticesOnPoles ==
  <<<<<<491, -357, 795>>, <<491, 357, 795>>, <<-188, 577, 795>>, <<-607, 0, 795>>, <<-188, -577, 795>>>>,
    <<<<491, 357, 795>>, <<491, -357, 795>>, <<795, -577, 188>>, <<982, 0, -188>>, <<795, 577, 188>>>>,
    <<<<-188, 577, 795>>, <<491, 357, 795>>, <<795, 577, 188>>, <<304, 934, -188>>, <<-304, 934, 188>>>>,
    <<<<-607, 0, 795>>, <<-188, 577, 795>>, <<-304, 934, 188>>, <<-795, 577, -188>>, <<-982, 0, 188>>>>,
    <<<<-188, -577, 795>>, <<-607, 0, 795>>, <<-982, 0, 188>>, <<-795, -577, -188>>, <<-304, -934, 188>>>>,
    <<<<491, -357, 795>>, <<-188, -577, 795>>, <<-304, -934, 188>>, <<304, -934, -188>>, <<795, -577, 188>>>>,
    <<<<304, 934, -188>>, <<795, 577, 188>>, <<982, 0, -188>>, <<607, 0, -795>>, <<188, 577, -795>>>>,
    <<<<-795, 577, -188>>, <<-304, 934, 188>>, <<304, 934, -188>>, <<188, 577, -795>>, <<-491, 357, -795>>>>,
    <<<<-795, -577, -188>>, <<-982, 0, 188>>, <<-795, 577, -188>>, <<-491, 357, -795>>, <<-491, -357, -795>>>>,
    <<<<304, -934, -188>>, <<-304, -934, 188>>, <<-795, -577, -188>>, <<-491, -357, -795>>, <<188, -577, -795>>>>,
    <<<<982, 0, -188>>, <<795, -577, 188>>, <<304, -934, -188>>, <<188, -577, -795>>, <<607, 0, -795>>>>,
    <<<<188, 577, -795>>, <<607, 0, -795>>, <<188, -577, -795>>, <<-491, -357, -795>>, <<-491, 357, -795>>>>>>

\* withFacesOnPoles = False: a vertex on each pole, shared by faces 0, 1, 2
\* (north) and 9, 10, 11 (south)
FaceCtrOffPoles ==
  <<<<607, 0, 795>>, <<-304, 526, 795>>, <<-304, -526, 795>>,
    <<491, 851, 188>>, <<-982, 0, 188>>, <<491, -851, 188>>,
    <<982, 0, -188>>, <<-491, 851, -188>>, <<-491, -851, -188>>,
    <<304, 526, -795>>, <<-607, 0, -795>>, <<304, -526, -795>>>>

VerticesOffPoles ==
  <<<<<<333, 577, 745>>, <<0, 0, 1000>>, <<333, -577, 745>>, <<873, -357, 333>>, <<873, 357, 333>>>>,
    <<<<-667, 0, 745>>, <<0, 0, 1000>>, <<333, 577, 745>>, <<-127, 934, 333>>, <<-745, 577, 333>>>>,
    <<<<333, -577, 745>>, <<0, 0, 1000>>, <<-667, 0, 745>>, <<-745, -577, 333>>, <<-127, -934, 333>>>>,
    <<<<-127, 934, 333>>, <<333, 577, 745>>, <<873, 357, 333>>, <<745, 577, -333>>, <<127, 934, -333>>>>,
    <<<<-745, -577, 333>>, <<-667, 0, 745>>, <<-745, 577, 333>>, <<-873, 357, -333>>, <<-873, -357, -333>>>>,
    <<<<873, -357, 333>>, <<333, -577, 745>>, <<-127, -934, 333>>, <<127, -934, -333>>, <<745, -577, -333>>>>,
    <<<<873, 357, 333>>, <<873, -357, 333>>, <<745, -577, -333>>, <<667, 0, -745>>, <<745, 577, -333>>>>,
    <<<<-745, 577, 333>>, <<-127, 934, 333>>, <<127, 934, -333>>, <<-333, 577, -745>>, <<-873, 357, -333>>>>,
    <<<<-127, -934, 333>>, <<-745, -577, 333>>, <<-873, -357, -333>>, <<-333, -577, -745>>, <<127, -934, -333>>>>,
    <<<<127, 934, -333>>, <<745, 577, -333>>, <<667, 0, -745>>, <<0, 0, -1000>>, <<-333, 577, -745>>>>,
    <<<<-873, -357, -333>>, <<-873, 357, -333>>, <<-333, 577, -745>>, <<0, 0, -1000>>, <<-333, -577, -745>>>>,
    <<<<745, -577, -333>>, <<127, -934, -333>>, <<-333, -577, -745>>, <<0, 0, -1000>>, <<667, 0, -745>>>>>>

\* The angle from a face centre to its vertices, in micro-radians (37.377 deg)
FaceRadius == 652358

FaceIds == 0..11

Dodecahedron(withFacesOnPoles) == [withFacesOnPoles |-> withFacesOnPoles]
getWithFacesOnPoles(dodecahedron) == dodecahedron.withFacesOnPoles

getFaceCtr(dodecahedron, id) ==
  IF dodecahedron.withFacesOnPoles THEN FaceCtrOnPoles[id + 1] ELSE FaceCtrOffPoles[id + 1]

getVertices(dodecahedron, id) ==
  IF dodecahedron.withFacesOnPoles THEN VerticesOnPoles[id + 1] ELSE VerticesOffPoles[id + 1]

Dot(a, b) == a[1] * b[1] + a[2] * b[2] + a[3] * b[3]

\* The first face at or after id, or best, whichever has the largest dot
\* product with vec: the earlier one of two that are equal
RECURSIVE ArgMaxFrom(_, _, _, _)
ArgMaxFrom(dodecahedron, vec, id, best) ==
  IF id \notin FaceIds THEN best
  ELSE ArgMaxFrom(dodecahedron, vec, id + 1,
                  IF Dot(getFaceCtr(dodecahedron, id), vec) > Dot(getFaceCtr(dodecahedron, best), vec)
                  THEN id ELSE best)

\* The face whose centre has the largest dot product with vec; of several, the
\* one of lowest id
getFaceInd(dodecahedron, vec) == ArgMaxFrom(dodecahedron, vec, 1, 0)

-----------------------------------------------------------------------------
(* Objects.  An object is a record of its class and of the attributes set so *)
(* far: object.__new__ gives NewObject, each assignment adds an attribute.   *)

NewObject == [class |-> "DodecaSkyMap"]

\* The variable skymap before anything is bound to it
NoSkyMap == [class |-> "None"]

\* self.<name> = v
SetAttr(self, name, v) == (name :> v) @@ self

HasAttr(self, name) == name \in DOMAIN self

-----------------------------------------------------------------------------
(* TractInfo and its patch grid *)

CeilDiv(a, b) == (a + b - 1) \div b
Max(a, b) == IF a >= b THEN a ELSE b

\* wcsFactory.makeWcs: the projection is opaque; a WCS is the centre it was
\* made for, with the factory's pixel scale and projection code
WcsFactory(pixelScale, projection) == [pixelScale |-> pixelScale, projection |-> projection]
makeWcs(wcsFactory, crVal) ==
  [crVal |-> crVal, pixelScale |-> wcsFactory.pixelScale, projection |-> wcsFactory.projection]

\* Half the side of the pixel box that holds a face's vertices and the overlap
TractHalfExtent(tractOverlap, pixelScale) == CeilDiv(FaceRadius + tractOverlap, pixelScale)

\* A box is its minimum corner and its size, in pixels
Box(x0, y0, w, h) == [x0 |-> x0, y0 |-> y0, w |-> w, h |-> h]

NumPatches(extent, innerDim) == Max(1, CeilDiv(extent, innerDim))

TractInfo(id, patchInnerDimensions, patchBorder, ctrCoord, vertexCoordList, tractOverlap, wcsFactory) ==
  LET side == 2 * TractHalfExtent(tractOverlap, wcsFactory.pixelScale)
  IN  [id |-> id,
       patchInnerDimensions |-> patchInnerDimensions,
       patchBorder |-> patchBorder,
       ctrCoord |-> ctrCoord,
       vertexCoordList |-> vertexCoordList,
       tractOverlap |-> tractOverlap,
       wcs |-> makeWcs(wcsFactory, ctrCoord),
       bbox |-> Box(0, 0, side, side),
       numPatches |-> <<NumPatches(side, patchInnerDimensions[1]),
                        NumPatches(side, patchInnerDimensions[2])>>]

PatchIndices(tract) ==
  {<<i, j>> : i \in 0..(tract.numPatches[1] - 1), j \in 0..(tract.numPatches[2] - 1)}

getPatchInfo(tract, index) ==
  LET w == tract.patchInnerDimensions[1]
      h == tract.patchInnerDimensions[2]
      b == tract.patchBorder
  IN  [index |-> index,
       innerBBox |-> Box(index[1] * w, index[2] * h, w, h),
       outerBBox |-> Box(index[1] * w - b, index[2] * h - b, w + 2 * b, h + 2 * b)]

-----------------------------------------------------------------------------
(* BaseSkyMap *)

BaseSkyMap__init__(self, patchInnerDimensions, patchBorder, tractOverlap, pixelScale, projection) ==
  IF patchInnerDimensions[1] <= 0 \/ patchInnerDimensions[2] <= 0 \/ patchBorder <= 0
  THEN [raised |-> ConfigurationError, self |-> self]
  ELSE [raised |-> NoError,
        self |-> SetAttr(SetAttr(SetAttr(SetAttr(SetAttr(SetAttr(SetAttr(self,
                   "_patchInnerDimensions", patchInnerDimensions),
                   "_patchBorder", patchBorder),
                   "_tractOverlap", tractOverlap),
                   "_pixelScale", pixelScale),
                   "_projection", projection),
                   "_tractInfoList", <<>>),
                   "_wcsFactory", WcsFactory(pixelScale, projection))]

getPatchInnerDimensions(self) == self._patchInnerDimensions
getPatchBorder(self) == self._patchBorder
getTractOverlap(self) == self._tractOverlap
getPixelScale(self) == self._pixelScale
getProjection(self) == self._projection

\* self[ind] and len(self)
getitem(self, ind) == self._tractInfoList[ind + 1]
len(self) == Len(self._tractInfoList)

-----------------------------------------------------------------------------
(* DodecaSkyMap *)

getLongitude(coord) == coord.lon

\* The loop one face short
TractIds_Eleven == 0..10

\* for id in range(12)
TractIds == 0..11

\* The face centre converted without defRA
TractCoordOf_NoDefRA(dodecahedron, id) ==
  _coordFromVec(getFaceCtr(dodecahedron, id), None)

\* tractCoord = _coordFromVec(tractVec, defRA=afwGeom.Angle(0))
TractCoordOf(dodecahedron, id) ==
  _coordFromVec(getFaceCtr(dodecahedron, id), Some(Angle(0, radians)))

\* [_coordFromVec(vec, defRA=tractRA) for vec in vertexVecList]
VertexCoordsOf(dodecahedron, id, tractRA) ==
  <<_coordFromVec(getVertices(dodecahedron, id)[1], Some(tractRA)),
    _coordFromVec(getVertices(dodecahedron, id)[2], Some(tractRA)),
    _coordFromVec(getVertices(dodecahedron, id)[3], Some(tractRA)),
    _coordFromVec(getVertices(dodecahedron, id)[4], Some(tractRA)),
    _coordFromVec(getVertices(dodecahedron, id)[5], Some(tractRA))>>

\* The conversions of the loop body, which depend on the orientation and the
\* face alone, tabulated
ConversionsOf(dodecahedron, id, tractCoord) ==
  [tractCoord |-> tractCoord,
   vertexCoordList |->
     IF tractCoord.raised = NoError
     THEN VertexCoordsOf(dodecahedron, id, getLongitude(tractCoord.value))
     ELSE <<>>]

Conversions ==
  LET t == [k \in BOOLEAN \X FaceIds |->
              ConversionsOf(Dodecahedron(k[1]), k[2], TractCoordOf(Dodecahedron(k[1]), k[2]))]
  IN IF t = t THEN t ELSE t

\* The loop body with no border handed to TractInfo
AppendTract_NoBorder(self, id, conv) ==
  IF conv.tractCoord.raised # NoError
  THEN [raised |-> conv.tractCoord.raised, self |-> self]
  ELSE IF \E k \in 1..Len(conv.vertexCoordList) : conv.vertexCoordList[k].raised # NoError
  THEN [raised |-> PoleAmbiguity, self |-> self]
  ELSE [raised |-> NoError,
        self |-> SetAttr(self, "_tractInfoList",
                   Append(self._tractInfoList,
                     TractInfo(id, self._patchInnerDimensions, 0,
                               conv.tractCoord.value,
                               <<conv.vertexCoordList[1].value, conv.vertexCoordList[2].value,
                                 conv.vertexCoordList[3].value, conv.vertexCoordList[4].value,
                                 conv.vertexCoordList[5].value>>,
                               getTractOverlap(self), self._wcsFactory)))]

\* One pass of the loop body for face id, conv being its conversions: the
\* exception a conversion raised, or the object with the tract appended
AppendTract(self, id, conv) ==
  IF conv.tractCoord.raised # NoError
  THEN [raised |-> conv.tractCoord.raised, self |-> self]
  ELSE IF \E k \in 1..Len(conv.vertexCoordList) : conv.vertexCoordList[k].raised # NoError
  THEN [raised |-> PoleAmbiguity, self |-> self]
  ELSE [raised |-> NoError,
        self |-> SetAttr(self, "_tractInfoList",
                   Append(self._tractInfoList,
                     TractInfo(id, self._patchInnerDimensions, self._patchBorder,
                               conv.tractCoord.value,
                               <<conv.vertexCoordList[1].value, conv.vertexCoordList[2].value,
                                 conv.vertexCoordList[3].value, conv.vertexCoordList[4].value,
                                 conv.vertexCoordList[5].value>>,
                               getTractOverlap(self), self._wcsFactory)))]

\* The loop of __init__ from face id on, r being the state of the call so far;
\* an exception leaves the loop with the object as it is then
RECURSIVE AppendTracts(_, _)
AppendTracts(r, id) ==
  IF id \notin TractIds \/ r.raised # NoError THEN r
  ELSE AppendTracts(
         AppendTract(r.self, id,
                     Conversions[<<getWithFacesOnPoles(r.self._dodecahedron), id>>]),
         id + 1)

\* __init__ with patchBorder not handed on to BaseSkyMap.__init__
__init___BorderNotPassed(self, patchInnerDimensions, patchBorder, tractOverlap, pixelScale, projection, withTractsOnPoles) ==
  AppendTracts(
    BaseSkyMap__init__(
      SetAttr(SetAttr(self, "_version", <<1, 0>>),
              "_dodecahedron", Dodecahedron(withTractsOnPoles)),
      patchInnerDimensions, 1, tractOverlap, pixelScale, projection),
    0)

\* The result holds the exception raised, if any, and the object as the call
\* leaves it
__init__(self, patchInnerDimensions, patchBorder, tractOverlap, pixelScale, projection, withTractsOnPoles) ==
  AppendTracts(
    BaseSkyMap__init__(
      SetAttr(SetAttr(self, "_version", <<1, 0>>),
              "_dodecahedron", Dodecahedron(withTractsOnPoles)),
      patchInnerDimensions, patchBorder, tractOverlap, pixelScale, projection),
    0)

getVersion(self) == self._version
getWithTractsOnPoles(self) == getWithFacesOnPoles(self._dodecahedron)

\* __getstate__ that does not read the orientation
__getstate___NoOrientation(self) ==
  [version |-> self._version,
   patchInnerDimensions |-> getPatchInnerDimensions(self),
   patchBorder |-> getPatchBorder(self),
   tractOverlap |-> asRadians(getTractOverlap(self)),
   pixelScale |-> asRadians(getPixelScale(self)),
   projection |-> getProjection(self),
   withTractsOnPoles |-> FALSE]

__getstate__(self) ==
  [version |-> self._version,
   patchInnerDimensions |-> getPatchInnerDimensions(self),
   patchBorder |-> getPatchBorder(self),
   tractOverlap |-> asRadians(getTractOverlap(self)),
   pixelScale |-> asRadians(getPixelScale(self)),
   projection |-> getProjection(self),
   withTractsOnPoles |-> getWithTractsOnPoles(self)]

\* argDict.pop(key)
RECURSIVE Restrict(_, _)
Restrict(argDict, keys) ==
  IF keys = {} THEN <<>>
  ELSE (LET key == CHOOSE k \in keys : TRUE
        IN  (key :> argDict[key]) @@ Restrict(argDict, keys \ {key}))

Pop(argDict, key) == Restrict(argDict, DOMAIN argDict \ {key})

\* Python's tuple comparison a >= b, for pairs
TupleGE(a, b) == a[1] > b[1] \/ (a[1] = b[1] /\ a[2] >= b[2])

\* self.__init__(**argDict), and argDict as the call leaves it
WithArgDict(r, argDict) == [raised |-> r.raised, self |-> r.self, argDict |-> argDict]

InitFromDict(self, argDict) ==
  WithArgDict(__init__(self, argDict.patchInnerDimensions, argDict.patchBorder,
                       argDict.tractOverlap, argDict.pixelScale, argDict.projection,
                       argDict.withTractsOnPoles),
              argDict)

\* __setstate__ taking the persisted tract overlap for degrees
__setstate___Degrees(self, argDict) ==
  IF TupleGE(argDict.version, <<2, 0>>)
  THEN [raised |-> NameError, self |-> self, argDict |-> Pop(argDict, "version")]
  ELSE InitFromDict(self, [Pop(argDict, "version") EXCEPT !.tractOverlap = Angle(@, degrees),
                                                          !.pixelScale = Angle(@, radians)])

\* The result holds the exception, the object and the caller's dictionary as
\* the call leaves them; line 144 names runtimeError, which nothing defines
__setstate__(self, argDict) ==
  IF TupleGE(argDict.version, <<2, 0>>)
  THEN [raised |-> NameError, self |-> self, argDict |-> Pop(argDict, "version")]
  ELSE InitFromDict(self, [Pop(argDict, "version") EXCEPT !.tractOverlap = Angle(@, radians),
                                                          !.pixelScale = Angle(@, radians)])

\* findTract off by one face
findTract_NextFace(self, coord) ==
  getitem(self, (getFaceInd(self._dodecahedron, getVector(coord)) + 1) % 12)

findTract(self, coord) ==
  getitem(self, getFaceInd(self._dodecahedron, getVector(coord)))

-----------------------------------------------------------------------------
(* The program: one sky map variable, constructed, pickled, unpickled and    *)
(* queried.  call is the last call made and what it returned or raised.      *)

MaxPatchBorder == 2
MaxVersionMajor == 2
MaxVersionMinor == 1

PatchInnerDimensionsInputs == {<<2, 3>>, <<4, 2>>, <<0, 3>>, <<2, -1>>}
PatchBorderInputs == 0..MaxPatchBorder
TractOverlapInputs == {Angle(61087, radians), Angle(6, degrees)}
PixelScaleInputs == {Angle(300000, radians)}
ProjectionInputs == {"STG", "TAN"}

Configs ==
  [patchInnerDimensions : PatchInnerDimensionsInputs,
   patchBorder : PatchBorderInputs,
   tractOverlap : TractOverlapInputs,
   pixelScale : PixelScaleInputs,
   projection : ProjectionInputs,
   withTractsOnPoles : BOOLEAN]

Versions == {<<major, minor>> : major \in 1..MaxVersionMajor, minor \in 0..MaxVersionMinor}

\* Dictionaries persisted elsewhere: every dimension and border, the rest fixed
ForeignPickles ==
  {[version |-> <<1, 0>>, patchInnerDimensions |-> dims, patchBorder |-> border,
    tractOverlap |-> 61087, pixelScale |-> 300000, projection |-> "STG",
    withTractsOnPoles |-> w] :
     dims \in PatchInnerDimensionsInputs, border \in PatchBorderInputs, w \in {TRUE}}

QueryLons == {0, 123, 321, 359}
QueryLats == {-90, -53, -11, 0, 27, 90}
QueryCoords == {makeCoord(Angle(lon, degrees), Angle(lat, degrees)) : lon \in QueryLons, lat \in QueryLats}

Init ==
  /\ skymap = NoSkyMap
  /\ call = [op |-> "start"]

\* Every dictionary an unpickling is given
PersistedDicts ==
  [version : Versions,
   patchInnerDimensions : PatchInnerDimensionsInputs,
   patchBorder : PatchBorderInputs,
   tractOverlap : {asRadians(a) : a \in TractOverlapInputs},
   pixelScale : {asRadians(a) : a \in PixelScaleInputs},
   projection : ProjectionInputs,
   withTractsOnPoles : BOOLEAN]

\* What the constructor and the unpickling do with each input, tabulated: both
\* start from a new object and depend on nothing else.  (Comparing a table
\* with itself has TLC evaluate it once, in full, before any step is taken.)
Constructed ==
  LET t == [cfg \in Configs |->
     __init__(NewObject, cfg.patchInnerDimensions, cfg.patchBorder, cfg.tractOverlap,
              cfg.pixelScale, cfg.projection, cfg.withTractsOnPoles)]
  IN IF t = t THEN t ELSE t

Unpickled ==
  LET t == [argDict \in PersistedDicts |-> __setstate__(NewObject, argDict)]
  IN IF t = t THEN t ELSE t

\* The outcome of __setstate__(argDict) on a new object
SetState(argDict) ==
  IF argDict \in PersistedDicts THEN Unpickled[argDict] ELSE __setstate__(NewObject, argDict)

\* What skymap is bound to after a call that makes an object: the object,
\* unless the call raised
Bound(r) == IF r.raised = NoError THEN r.self ELSE skymap

\* The record of such a call; it keeps the object a raising call left behind
Called(op, arg, r) ==
  [op |-> op, arg |-> arg, raised |-> r.raised,
   self |-> IF r.raised = NoError THEN NewObject ELSE r.self,
   argAfter |-> IF op = "__setstate__" THEN r.argDict ELSE arg]

\* skymap = DodecaSkyMap(**cfg)
Construct(cfg) ==
  \E r \in {Constructed[cfg]} :
    /\ skymap' = Bound(r)
    /\ call' = Called("__init__", cfg, r)

\* skymap.__getstate__(), as pickle.dumps calls it
GetState ==
  /\ skymap # NoSkyMap
  /\ call' = [op |-> "__getstate__", result |-> __getstate__(skymap)]
  /\ UNCHANGED skymap

\* skymap = pickle.loads(...): __setstate__(argDict) on a new object
Unpickle(argDict) ==
  \E r \in {SetState(argDict)} :
    /\ skymap' = Bound(r)
    /\ call' = Called("__setstate__", argDict, r)

Pickles == (IF call.op = "__getstate__" THEN {call.result} ELSE {}) \cup ForeignPickles

\* pickle.loads of the dictionary the last __getstate__ returned or of a
\* foreign one, under any version tag
Loads == \E d \in Pickles, v \in Versions : Unpickle([d EXCEPT !.version = v])

FindTract(coord) ==
  /\ skymap # NoSkyMap
  /\ call' = [op |-> "findTract", coord |-> coord, result |-> findTract(skymap, coord)]
  /\ UNCHANGED skymap

GetVersion ==
  /\ skymap # NoSkyMap
  /\ call' = [op |-> "getVersion", result |-> getVersion(skymap)]
  /\ UNCHANGED skymap

GetWithTractsOnPoles ==
  /\ skymap # NoSkyMap
  /\ call' = [op |-> "getWithTractsOnPoles", result |-> getWithTractsOnPoles(skymap)]
  /\ UNCHANGED skymap

Next ==
  \/ \E cfg \in Configs : Construct(cfg)
  \/ GetState
  \/ Loads
  \/ \E coord \in QueryCoords : FindTract(coord)
  \/ GetVersion
  \/ GetWithTractsOnPoles

Spec == Init /\ [][Next]_vars

-----------------------------------------------------------------------------
(* Properties of the program *)

ConstructionOps == {"__init__", "__setstate__"}
QueryOps == {"__getstate__", "findTract", "getVersion", "getWithTractsOnPoles"}

\* The configuration an object holds, read through its getters
ConfigOf(self) ==
  <<getPatchInnerDimensions(self), getPatchBorder(self), getTractOverlap(self),
    getPixelScale(self), getProjection(self), getWithTractsOnPoles(self), getVersion(self)>>

\* A vector _coordFromVec takes to be at a pole
NearPole(vec) == Abs(vec[1]) < _TinyFloat /\ Abs(vec[2]) < _TinyFloat

AtPole(coord) == Abs(coord.lat) = Angle(90, degrees)

\* C1: findTract returns exactly one tract, the tract of the sky map whose id
\* is the face with the largest dot product between its centre and the
\* coordinate's vector, the lowest such id on a tie; at a pole every longitude
\* of the query gives that same tract id.
C1_NearestFace ==
  call.op = "findTract" =>
    /\ call.result.id \in FaceIds
    /\ call.result = getitem(skymap, call.result.id)
    /\ \A f \in FaceIds :
         /\ Dot(getFaceCtr(skymap._dodecahedron, f), getVector(call.coord))
              <= Dot(getFaceCtr(skymap._dodecahedron, call.result.id), getVector(call.coord))
         /\ Dot(getFaceCtr(skymap._dodecahedron, f), getVector(call.coord))
              = Dot(getFaceCtr(skymap._dodecahedron, call.result.id), getVector(call.coord))
            => call.result.id <= f
    /\ AtPole(call.coord) =>
         \A lon \in QueryLons :
           findTract(skymap, makeCoord(Angle(lon, degrees), call.coord.lat)).id = call.result.id

\* A query at the north pole, at longitude 123 degrees, of a sky map with
\* vertices on the poles: three faces are equally near and the lowest wins
C1_Witness ==
  /\ call.op = "findTract"
  /\ call.coord = makeCoord(Angle(123, degrees), Angle(90, degrees))
  /\ ~getWithTractsOnPoles(skymap)
  /\ Cardinality({f \in FaceIds :
        Dot(getFaceCtr(skymap._dodecahedron, f), getVector(call.coord))
          = Dot(getFaceCtr(skymap._dodecahedron, call.result.id), getVector(call.coord))}) = 3
  /\ call.result.id = 0

\* C3: __setstate__ with a version of (2, 0) or newer raises the version
\* error, having set no attribute and built no tract; with an older version
\* it does not raise it.
C3_VersionRejected ==
  call.op = "__setstate__" =>
    IF TupleGE(call.arg.version, <<2, 0>>)
    THEN call.raised = VersionError /\ call.self = NewObject
    ELSE call.raised # VersionError

\* C4: __setstate__ on the dictionary __getstate__ just returned raises
\* nothing and gives a sky map with the configuration and the tract list of
\* the one pickled, whose own __getstate__ returns that dictionary again.
C4_RoundTrip ==
  [][(call.op = "__getstate__" /\ call'.op = "__setstate__" /\ call'.arg = call.result) =>
       /\ call'.raised = NoError
       /\ ConfigOf(skymap') = ConfigOf(skymap)
       /\ skymap'._tractInfoList = skymap._tractInfoList
       /\ __getstate__(skymap') = call.result]_vars

\* A sky map unpickled from its own pickle, with a tract overlap given in
\* degrees, the TAN projection and vertices on the poles
C4_Witness ==
  /\ call.op = "__setstate__"
  /\ call.raised = NoError
  /\ call.arg = __getstate__(skymap)
  /\ getTractOverlap(skymap) = Angle(6, degrees)
  /\ getProjection(skymap) = "TAN"
  /\ ~getWithTractsOnPoles(skymap)

\* The tract the constructor builds for face id
TractOfFace(self, id) ==
  TractInfo(id, getPatchInnerDimensions(self), getPatchBorder(self),
            _coordFromVec(getFaceCtr(self._dodecahedron, id), Some(Angle(0, radians))).value,
            [k \in 1..5 |->
               _coordFromVec(getVertices(self._dodecahedron, id)[k],
                             Some(getitem(self, id).ctrCoord.lon)).value],
            getTractOverlap(self), self._wcsFactory)

\* C7: a sky map holds exactly 12 tracts, the tract at position i having id i
\* and being the one built from face i, and no query changes the sky map.
C7_TwelveTracts ==
  /\ [](skymap # NoSkyMap =>
          /\ len(skymap) = 12
          /\ \A i \in 0..11 : /\ getitem(skymap, i).id = i
                              /\ getitem(skymap, i) = TractOfFace(skymap, i))
  /\ [][call'.op \in QueryOps => skymap' = skymap]_vars

\* A sky map with vertices on the poles, after a findTract
C7_Witness ==
  /\ call.op = "findTract"
  /\ len(skymap) = 12
  /\ getitem(skymap, 11).id = 11
  /\ ~getWithTractsOnPoles(skymap)

NonPositive(argDict) ==
  \/ argDict.patchInnerDimensions[1] <= 0
  \/ argDict.patchInnerDimensions[2] <= 0
  \/ argDict.patchBorder <= 0

\* The last call ran the constructor: directly, or through a __setstate__
\* that let the version pass
RanConstructor ==
  \/ call.op = "__init__"
  \/ call.op = "__setstate__" /\ ~TupleGE(call.arg.version, <<2, 0>>)

Within(a, b) ==
  /\ b.x0 <= a.x0 /\ a.x0 + a.w <= b.x0 + b.w
  /\ b.y0 <= a.y0 /\ a.y0 + a.h <= b.y0 + b.h
Pixels(box) == (box.x0 .. (box.x0 + box.w - 1)) \X (box.y0 .. (box.y0 + box.h - 1))
Grown(box, border) == Box(box.x0 - border, box.y0 - border, box.w + 2 * border, box.h + 2 * border)

\* The patch grid the sky map's configuration gives a tract
GridAsConfigured(self, tract) ==
  /\ tract.numPatches[1] = Max(1, CeilDiv(tract.bbox.w, getPatchInnerDimensions(self)[1]))
  /\ tract.numPatches[2] = Max(1, CeilDiv(tract.bbox.h, getPatchInnerDimensions(self)[2]))
  /\ \A index \in PatchIndices(tract) :
       /\ getPatchInfo(tract, index).innerBBox =
            Box(index[1] * getPatchInnerDimensions(self)[1],
                index[2] * getPatchInnerDimensions(self)[2],
                getPatchInnerDimensions(self)[1], getPatchInnerDimensions(self)[2])
       /\ getPatchInfo(tract, index).outerBBox =
            Grown(getPatchInfo(tract, index).innerBBox, getPatchBorder(self))

OuterBoxesCover(tract) ==
  \A p \in Pixels(tract.bbox) :
    \E index \in PatchIndices(tract) : p \in Pixels(getPatchInfo(tract, index).outerBBox)

\* The tract's bounding box rounded up to whole patches
WholePatches(tract) ==
  Box(tract.bbox.x0, tract.bbox.y0,
      tract.numPatches[1] * tract.patchInnerDimensions[1],
      tract.numPatches[2] * tract.patchInnerDimensions[2])

C10_NoPoleAmbiguity ==
  /\ call.op \in ConstructionOps => call.raised # PoleAmbiguity
  /\ skymap # NoSkyMap =>
       \A i \in 0..(len(skymap) - 1) :
         /\ NearPole(getFaceCtr(skymap._dodecahedron, i)) =>
              getitem(skymap, i).ctrCoord.lon = Angle(0, radians)
         /\ \A k \in 1..5 :
              NearPole(getVertices(skymap._dodecahedron, i)[k]) =>
                getitem(skymap, i).vertexCoordList[k].lon = getitem(skymap, i).ctrCoord.lon

\* A sky map just constructed with vertices on the poles: a tract away from
\* longitude 0 has a vertex at a pole
C10_Witness ==
  /\ call.op = "__init__"
  /\ call.raised = NoError
  /\ ~getWithTractsOnPoles(skymap)
  /\ \E i \in 0..11, k \in 1..5 :
       /\ NearPole(getVertices(skymap._dodecahedron, i)[k])
       /\ getitem(skymap, i).vertexCoordList[k].lon # Angle(0, radians)

-----------------------------------------------------------------------------
(* Identity of sky maps: the fingerprint and the comparison built on it,    *)
(* for the dodecahedron sky map and for the configuration of the rings sky  *)
(* map (whose tracts are not modelled).                                     *)

RingsObject == [class |-> "RingsSkyMap"]

RingsSkyMap__init__(self, numRings, raStart, patchInnerDimensions, patchBorder, tractOverlap, pixelScale, projection) ==
  BaseSkyMap__init__(
    SetAttr(SetAttr(SetAttr(self, "_version", <<1, 0>>), "_numRings", numRings),
            "_raStart", raStart),
    patchInnerDimensions, patchBorder, tractOverlap, pixelScale, projection)

\* The fields a fingerprint is taken over, in a fixed order
RingsSkyMap_updateSha1(self) ==
  <<self._numRings, asRadians(self._raStart)>>

DodecaSkyMap_updateSha1(self) ==
  <<__getstate__(self).withTractsOnPoles>>

\* The digest is taken to be free of collisions: it is the sequence digested
getSha1(self) ==
  <<self.class>>
  \o (IF self.class = "RingsSkyMap"
      THEN <<getVersion(self), getPatchInnerDimensions(self), getPatchBorder(self),
             asRadians(getTractOverlap(self)), asRadians(getPixelScale(self)),
             getProjection(self)>>
           \o RingsSkyMap_updateSha1(self)
      ELSE <<__getstate__(self).version, __getstate__(self).patchInnerDimensions,
             __getstate__(self).patchBorder, __getstate__(self).tractOverlap,
             __getstate__(self).pixelScale, __getstate__(self).projection>>
           \o DodecaSkyMap_updateSha1(self))

\* self == other
eq(self, other) == getSha1(self) = getSha1(other)

NumRingsInputs == {3, 4, 5}
RaStartInputs == {Angle(0, degrees), Angle(60, degrees), Angle(75, degrees)}

RingsConfigs ==
  [numRings : NumRingsInputs,
   raStart : RaStartInputs,
   patchInnerDimensions : {<<2, 3>>},
   patchBorder : {1},
   tractOverlap : TractOverlapInputs,
   pixelScale : PixelScaleInputs,
   projection : {"STG"}]

RingsConstructed ==
  LET t == [cfg \in RingsConfigs |->
              RingsSkyMap__init__(RingsObject, cfg.numRings, cfg.raStart,
                                  cfg.patchInnerDimensions, cfg.patchBorder,
                                  cfg.tractOverlap, cfg.pixelScale, cfg.projection)]
  IN IF t = t THEN t ELSE t

\* skymap = RingsSkyMap(cfg)
ConstructRings(cfg) ==
  \E r \in {RingsConstructed[cfg]} :
    /\ skymap' = Bound(r)
    /\ call' = Called("__init__", cfg, r)

\* The sky maps there are to compare with
OtherSkyMaps ==
  {Constructed[cfg].self : cfg \in {c \in Configs : Constructed[c].raised = NoError}}
  \cup {RingsConstructed[cfg].self : cfg \in RingsConfigs}

\* skymap == other
Compare(other) ==
  /\ skymap # NoSkyMap
  /\ call' = [op |-> "__eq__", other |-> other, result |-> eq(skymap, other),
              sha1 |-> <<getSha1(skymap), getSha1(other)>>]
  /\ UNCHANGED skymap

IdentityNext ==
  \/ \E cfg \in Configs : Construct(cfg)
  \/ \E cfg \in RingsConfigs : ConstructRings(cfg)
  \/ \E other \in OtherSkyMaps : Compare(other)

SpecIdentity == Init /\ [][IdentityNext]_vars

\* Every configuration parameter an object holds, those of its class included
ParametersOf(self) ==
  IF self.class = "RingsSkyMap"
  THEN <<getPatchInnerDimensions(self), getPatchBorder(self), getTractOverlap(self),
         getPixelScale(self), getProjection(self), getVersion(self),
         self._numRings, self._raStart>>
  ELSE ConfigOf(self)

-----------------------------------------------------------------------------
(* The calls of _coordFromVec on their own *)

EquatorialComponents == {-600, -2, -1, 0, 1, 2, 600}
PolarComponents == {-1000, -800, 0, 800, 1000}
VecInputs == {<<x, y, z>> : x \in EquatorialComponents, y \in EquatorialComponents, z \in PolarComponents}
DefRAInputs == {None, Some(Angle(0, radians)), Some(Angle(123, degrees))}

CoordInit ==
  /\ skymap = NoSkyMap
  /\ \E vec \in VecInputs, defRA \in DefRAInputs :
       call = [op |-> "input", vec |-> vec, defRA |-> defRA]

Call_coordFromVec ==
  /\ call.op = "input"
  /\ call' = [op |-> "_coordFromVec", vec |-> call.vec, defRA |-> call.defRA,
              result |-> _coordFromVec(call.vec, call.defRA)]
  /\ UNCHANGED skymap

CoordNext == Call_coordFromVec

SpecCoord == CoordInit /\ [][CoordNext]_vars

\* C2: _coordFromVec follows the pole policy: near a pole (both equatorial
\* components below the tiny epsilon) it raises the pole-ambiguity error when
\* defRA is None and otherwise returns longitude defRA with latitude +90
\* degrees for a positive and -90 degrees for a negative polar component; off
\* the poles it raises nothing and returns the coordinate of vec alone,
\* whatever defRA is.
C2_PolePolicy ==
  call.op = "_coordFromVec" =>
    /\ (NearPole(call.vec) /\ call.defRA = None) =>
         call.result = Raise(PoleAmbiguity)
    /\ (NearPole(call.vec) /\ call.defRA # None /\ call.vec[3] > 0) =>
         call.result = Return([lon |-> call.defRA[1], lat |-> 90 * degrees])
    /\ (NearPole(call.vec) /\ call.defRA # None /\ call.vec[3] < 0) =>
         call.result = Return([lon |-> call.defRA[1], lat |-> (-90) * degrees])
    /\ ~NearPole(call.vec) =>
         /\ call.result.raised = NoError
         /\ call.result.value.lon = LonDeg(call.vec) * degrees
         /\ call.result.value.lat = LatDeg(call.vec) * degrees

\* A conversion at the south pole, reached through a subnormal component, that
\* took its longitude from a non-zero defRA
C2_Witness ==
  /\ call.op = "_coordFromVec"
  /\ call.vec = <<1, -1, -1000>>
  /\ call.defRA = Some(Angle(123, degrees))
  /\ call.result.raised = NoError
  /\ call.result.value = [lon |-> 2146719, lat |-> -1570770]

====
